---- MODULE Spec2Model ----
(***************************************************************************)
(* Model of gprel/complex_networks:                                        *)
(*   code_geo.py  - reference table normalisation, haversine and           *)
(*                  compute_distance;                                      *)
(*   plot.py      - co-mention counting, top-n selection, network widths   *)
(*                  and the per-subject breakdown of one country pair.     *)
(* Strings are sequences of code points (65 = "A", 97 = "a", 44 = ",",     *)
(* 32 = " ", 34 = the double quote).  Python floats are modelled as        *)
(* fixed-point integers with Scale units per 1.0 and round-to-nearest,     *)
(* sign-symmetric rounding after every operation, as IEEE-754 does.        *)
(***************************************************************************)
EXTENDS Integers, Sequences, FiniteSets, TLC

VARIABLES
  \* code_geo.py
  geo_df,      \* the reference table df, a sequence of rows
  geo_phase,   \* "loading" while the module reads the csv, then "ready"
  iso1, iso2,  \* the arguments of the last compute_distance call
  result,      \* what that call returned
  \* plot.py, plot_top_country_pairs and plot_country_network
  col,         \* df[list_col]: a sequence of cells, each a list or NaN
  fn,          \* the function running, "none" before the call
  idx,         \* how many cells of df[list_col].dropna() the loop has done
  counter,     \* the Counter of co-mentions
  top_n,       \* top_n / top_edges of the call
  top,         \* the sorted, truncated series, as <<pair, count>> items
  G_nodes,     \* nodes of G
  G_edges,     \* edges of G, unordered, with their weight
  max_w,       \* the normalising maximum
  widths,      \* edge widths, a float per edge
  shown,       \* what plt.show() displayed: "none", "bar", "network"
  \* plot.py, plot_pair_mentions_by_subject
  subj_df,      \* df: a sequence of rows [lst, subj]
  country_pair, \* the argument country_pair
  subj_top_n,   \* the argument top_n: None, or an int
  mask,         \* the row filter computed by the call
  subj_series,  \* the returned series, as <<label, count>> items
  printed,      \* the "No records found" message was printed
  plotted       \* the bar chart was drawn and shown

geo_vars == <<geo_df, geo_phase, iso1, iso2, result>>

agg_vars ==
  <<col, fn, idx, counter, top_n, top, G_nodes, G_edges, max_w, widths, shown>>

subj_vars ==
  <<subj_df, country_pair, subj_top_n, mask, subj_series, printed, plotted>>

vars == <<geo_vars, agg_vars, subj_vars>>

(***************************************************************************)
(* Bounds                                                                  *)
(***************************************************************************)
MaxTableRows == 2
MaxRecords == 3
MaxRows == 2
MaxTop == 4
Scale == 1000
SeriesTerms == 8

(***************************************************************************)
(* Strings                                                                 *)
(***************************************************************************)
Range(s) == {s[i] : i \in DOMAIN s}

\* str.upper() on ASCII text
UpperChar(c) == IF c >= 97 /\ c <= 122 THEN c - 32 ELSE c

Upper(s) == [i \in DOMAIN s |-> UpperChar(s[i])]

IsSpace(c) == c = 32

RECURSIVE LStrip(_)
LStrip(s) == IF s # <<>> /\ IsSpace(Head(s)) THEN LStrip(Tail(s)) ELSE s

RECURSIVE RStrip(_)
RStrip(s) ==
  IF s # <<>> /\ IsSpace(s[Len(s)]) THEN RStrip(SubSeq(s, 1, Len(s) - 1)) ELSE s

\* str.strip()
Strip(s) == RStrip(LStrip(s))

IsNotQuote(c) == c # 34

\* .str.replace('"', '', regex=False)
RemoveQuotes(s) == SelectSeq(s, IsNotQuote)

\* Python's ordering of two strings (lexicographic on code points)
RECURSIVE StrLess(_, _)
StrLess(s, t) ==
  IF t = <<>> THEN FALSE
  ELSE IF s = <<>> THEN TRUE
  ELSE IF Head(s) # Head(t) THEN Head(s) < Head(t)
  ELSE StrLess(Tail(s), Tail(t))

(***************************************************************************)
(* Floating point, as fixed point with Scale units per 1.0                 *)
(***************************************************************************)
\* n / d rounded to the nearest integer, halves away from zero (d > 0)
RndPos(n, d) == IF 2 * (n % d) >= d THEN (n \div d) + 1 ELSE n \div d

Rnd(n, d) == IF n >= 0 THEN RndPos(n, d) ELSE 0 - RndPos(0 - n, d)

\* x * y on floats
FMul(x, y) == Rnd(x * y, Scale)

\* pi as a float
Pi == Rnd(355 * Scale, 113)

\* math.radians(x)
radians(x) == Rnd(x * Pi, 180 * Scale)

RECURSIVE SinSum(_, _, _, _)
SinSum(term, x2, k, left) ==
  IF left = 0 THEN 0
  ELSE term + SinSum(0 - Rnd(FMul(term, x2), (2 * k) * (2 * k + 1)),
                     x2, k + 1, left - 1)

\* math.sin(x), |x| <= pi
sin(x) == SinSum(x, FMul(x, x), 1, SeriesTerms)

RECURSIVE CosSum(_, _, _, _)
CosSum(term, x2, k, left) ==
  IF left = 0 THEN 0
  ELSE term + CosSum(0 - Rnd(FMul(term, x2), (2 * k - 1) * (2 * k)),
                     x2, k + 1, left - 1)

\* math.cos(x), |x| <= pi
cos(x) == CosSum(Scale, FMul(x, x), 1, SeriesTerms)

\* largest r in lo..hi with r * r <= n  (lo * lo <= n)
RECURSIVE SqrtSearch(_, _, _)
SqrtSearch(n, lo, hi) ==
  IF lo >= hi THEN lo
  ELSE LET mid == (lo + hi + 1) \div 2
       IN  IF mid * mid <= n THEN SqrtSearch(n, mid, hi)
           ELSE SqrtSearch(n, lo, mid - 1)

\* math.sqrt(a), a >= 0
sqrt(a) == SqrtSearch(a * Scale, 0, a + Scale)

\* largest y in lo..hi with sin(y) <= x  (sin(lo) <= x)
RECURSIVE AsinSearch(_, _, _)
AsinSearch(x, lo, hi) ==
  IF lo >= hi THEN lo
  ELSE LET mid == (lo + hi + 1) \div 2
       IN  IF sin(mid) <= x THEN AsinSearch(x, mid, hi)
           ELSE AsinSearch(x, lo, mid - 1)

\* math.asin(x) for 0 <= x <= 1; outside [-1, 1] math.asin raises ValueError
asin(x) == AsinSearch(x, 0, Rnd(Pi, 2))

(***************************************************************************)
(* code_geo.py                                                             *)
(***************************************************************************)
\* mean Earth radius in km
R == 6371

\* a plausible slip: the latitude of the first point used for both cosines
HavA_cos1(lat1, lon1, lat2, lon2) ==
  LET dlat == radians(lat2 - lat1)
      dlon == radians(lon2 - lon1)
      sdlat == sin(Rnd(dlat, 2))
      sdlon == sin(Rnd(dlon, 2))
  IN  FMul(sdlat, sdlat)
        + FMul(FMul(cos(radians(lat1)), cos(radians(lat1))), FMul(sdlon, sdlon))

\* a of the haversine formula
HavA(lat1, lon1, lat2, lon2) ==
  LET dlat == radians(lat2 - lat1)
      dlon == radians(lon2 - lon1)
      sdlat == sin(Rnd(dlat, 2))
      sdlon == sin(Rnd(dlon, 2))
  IN  FMul(sdlat, sdlat)
        + FMul(FMul(cos(radians(lat1)), cos(radians(lat2))), FMul(sdlon, sdlon))

NoResult == [kind |-> "none", names |-> <<>>, km |-> 0]

\* 'They are equal'
EqualResult == [kind |-> "equal", names |-> <<>>, km |-> 0]

\* f"{iso1} or {iso2} doesn't exist": the two codes the message names
NotFoundResult(u1, u2) == [kind |-> "notfound", names |-> <<u1, u2>>, km |-> 0]

DistanceResult(d) == [kind |-> "distance", names |-> <<>>, km |-> d]

Raised(exc) == [kind |-> "raise", names |-> <<exc>>, km |-> 0]

\* haversine(lat1, lon1, lat2, lon2): km as a float, or the ValueError of
\* math.sqrt / math.asin when a falls outside [0, 1]
haversine(lat1, lon1, lat2, lon2) ==
  LET a == HavA(lat1, lon1, lat2, lon2)
  IN  IF a < 0 \/ sqrt(a) > Scale THEN Raised("ValueError")
      ELSE DistanceResult(R * (2 * asin(sqrt(a))))

\* df["Alpha-3 code"] after .astype(str).str.replace('"', '').str.strip()
NormalizeCode(raw) == Strip(RemoveQuotes(raw))

\* df["Alpha-3 code"].values
Codes(df) == {df[i].code : i \in DOMAIN df}

\* df.loc[df["Alpha-3 code"] == iso, [...]].values[0]: the first matching row
FirstRow(df, iso) ==
  df[CHOOSE i \in DOMAIN df :
       /\ df[i].code = iso
       /\ \A j \in DOMAIN df : j < i => df[j].code # iso]

\* lines 49-52: both lookups, then haversine; .values[0] on an empty
\* selection raises IndexError
LookupAndMeasure(df, u1, u2) ==
  IF u1 \notin Codes(df) \/ u2 \notin Codes(df) THEN Raised("IndexError")
  ELSE LET r1 == FirstRow(df, u1)
           r2 == FirstRow(df, u2)
       IN  haversine(r1.lat, r1.lon, r2.lat, r2.lon)

\* a plausible slip: the codes compared before they are uppercased
compute_distance_raw_eq(df, a, b) ==
  LET u1 == Upper(a)
      u2 == Upper(b)
  IN  IF a = b THEN EqualResult
      ELSE IF u1 \notin Codes(df) \/ u2 \notin Codes(df)
        THEN NotFoundResult(u1, u2)
      ELSE LookupAndMeasure(df, u1, u2)

\* a plausible slip: "and" for "or" in the membership test
compute_distance_and(df, a, b) ==
  LET u1 == Upper(a)
      u2 == Upper(b)
  IN  IF u1 = u2 THEN EqualResult
      ELSE IF u1 \notin Codes(df) /\ u2 \notin Codes(df)
        THEN NotFoundResult(u1, u2)
      ELSE LookupAndMeasure(df, u1, u2)

compute_distance(df, a, b) ==
  LET u1 == Upper(a)
      u2 == Upper(b)
  IN  IF u1 = u2 THEN EqualResult
      ELSE IF u1 \notin Codes(df) \/ u2 \notin Codes(df)
        THEN NotFoundResult(u1, u2)
      ELSE LookupAndMeasure(df, u1, u2)

(***************************************************************************)
(* Inputs of code_geo.py                                                   *)
(***************************************************************************)
\* code cells of the csv: USA, usa, "CAN" (quoted), " CAN " (padded)
RawCodes ==
  { <<85, 83, 65>>, <<117, 115, 97>>, <<34, 67, 65, 78, 34>>,
    <<32, 67, 65, 78, 32>> }

\* centroids (latitude, longitude) in degrees, as floats
Centroids ==
  { <<0, 0>>, <<0, 90 * Scale>>, <<38 * Scale, 0 - 97 * Scale>>,
    <<0 - 33 * Scale - 900, 151 * Scale + 200>> }

\* arguments of compute_distance: USA, usa, can, ZZZ
ArgCodes ==
  { <<85, 83, 65>>, <<117, 115, 97>>, <<99, 97, 110>>, <<90, 90, 90>> }

(***************************************************************************)
(* code_geo.py as a state machine                                          *)
(***************************************************************************)
InitGeo ==
  /\ geo_df = <<>>
  /\ geo_phase = "loading"
  /\ iso1 = <<>>
  /\ iso2 = <<>>
  /\ result = NoResult

\* one row of the csv read and normalised (lines 6-27)
LoadRow ==
  /\ geo_phase = "loading"
  /\ Len(geo_df) < MaxTableRows
  /\ \E raw \in RawCodes, c \in Centroids :
       geo_df' = Append(geo_df, [code |-> NormalizeCode(raw),
                                 lat |-> c[1], lon |-> c[2]])
  /\ UNCHANGED <<geo_phase, iso1, iso2, result,
               agg_vars, subj_vars>>

\* the module finished loading; the table is read-only from here on
FinishLoad ==
  /\ geo_phase = "loading"
  /\ geo_phase' = "ready"
  /\ UNCHANGED <<geo_df, iso1, iso2, result,
               agg_vars, subj_vars>>

\* a call compute_distance(a, b)
CallComputeDistance ==
  /\ geo_phase = "ready"
  /\ \E a \in ArgCodes, b \in ArgCodes :
       /\ iso1' = a
       /\ iso2' = b
       /\ result' = compute_distance(geo_df, a, b)
  /\ UNCHANGED <<geo_df, geo_phase,
               agg_vars, subj_vars>>

NextGeo == LoadRow \/ FinishLoad \/ CallComputeDistance

(***************************************************************************)
(* Claims about code_geo.py                                                *)
(***************************************************************************)
Called == result.kind # "none"

\* C1: whenever the uppercased forms of the two arguments are identical,
\* compute_distance returns the 'equal' result and never a number, whether
\* or not the code is in the table.
C1_EqualBeforeLookup ==
  (Called /\ Upper(iso1) = Upper(iso2)) => result = EqualResult

\* the equal result for two differently cased spellings of an absent code
C1_Witness ==
  /\ result.kind = "equal"
  /\ iso1 # iso2
  /\ Upper(iso1) \notin Codes(geo_df)
  /\ geo_df # <<>>

AbsentCodes == {u \in {Upper(iso1), Upper(iso2)} : u \notin Codes(geo_df)}

\* C2 as stated: for distinct codes with at least one absent, the call does
\* not raise and the not-found result names exactly the absent code(s).
C2_NamesTheAbsentCodes ==
  (Called /\ Upper(iso1) # Upper(iso2) /\ AbsentCodes # {})
    => /\ result.kind = "notfound"
       /\ Range(result.names) = AbsentCodes

\* C2 amended: for distinct codes with at least one absent, the call does
\* not raise and returns the not-found result, whose message names both
\* uppercased arguments (so every absent code is among the names, but the
\* message does not tell which of the two is absent).
C2_NamesBothCodes ==
  (Called /\ Upper(iso1) # Upper(iso2) /\ AbsentCodes # {})
    => /\ result.kind = "notfound"
       /\ result.names = <<Upper(iso1), Upper(iso2)>>
       /\ AbsentCodes \subseteq Range(result.names)

\* a not-found result when exactly one of the two codes is absent
C2_Witness ==
  /\ result.kind = "notfound"
  /\ Cardinality(AbsentCodes) = 1
  /\ Upper(iso1) # Upper(iso2)

\* C3: for two different codes that are both found in the table, the result
\* of compute_distance(A, B) is exactly the result of compute_distance(B, A).
C3_ExactSymmetry ==
  (/\ Called
   /\ Upper(iso1) # Upper(iso2)
   /\ Upper(iso1) \in Codes(geo_df)
   /\ Upper(iso2) \in Codes(geo_df))
    => /\ result.kind \in {"distance", "raise"}
       /\ result = compute_distance(geo_df, iso2, iso1)

\* a positive distance between two centroids that differ in latitude and
\* longitude, with the first one off the equator
C3_Witness ==
  /\ result.kind = "distance"
  /\ result.km > 0
  /\ LET r1 == FirstRow(geo_df, Upper(iso1))
         r2 == FirstRow(geo_df, Upper(iso2))
     IN  r1.lat # r2.lat /\ r1.lon # r2.lon /\ r1.lat # 0 /\ r2.lat # 0

\* the table with every stored code uppercased
UpperTable(df) ==
  [i \in DOMAIN df |-> [code |-> Upper(df[i].code),
                        lat |-> df[i].lat, lon |-> df[i].lon]]

\* C4: the outcome of compute_distance does not depend on the letter case of
\* the stored codes or of the arguments: it is the outcome obtained with the
\* stored codes and the arguments all uppercased.
C4_CaseInsensitive ==
  Called => result = compute_distance(UpperTable(geo_df),
                                      Upper(iso1), Upper(iso2))

(***************************************************************************)
(* plot.py: the co-mention Counter                                         *)
(***************************************************************************)
NaN == [kind |-> "nan", items |-> <<>>]

List(s) == [kind |-> "list", items |-> s]

NotNa(cell) == cell.kind # "nan"

\* Series.dropna()
dropna(column) == SelectSeq(column, NotNa)

\* sorted(S) of a set of strings
RECURSIVE SortedSet(_)
SortedSet(S) ==
  IF S = {} THEN <<>>
  ELSE LET m == CHOOSE x \in S : \A y \in S : ~StrLess(y, x)
       IN  <<m>> \o SortedSet(S \ {m})

\* sorted(lst) of a list of strings, duplicates kept
RECURSIVE SortedList(_)
SortedList(lst) ==
  IF lst = <<>> THEN <<>>
  ELSE LET i == CHOOSE k \in DOMAIN lst : \A j \in DOMAIN lst : ~StrLess(lst[j], lst[k])
           rest == [j \in 1..(Len(lst) - 1) |-> IF j < i THEN lst[j] ELSE lst[j + 1]]
       IN  <<lst[i]>> \o SortedList(rest)

\* a plausible slip: no set(), so duplicates survive
uniq_no_set(lst) == SortedList(lst)

RECURSIVE Reverse(_)
Reverse(q) == IF q = <<>> THEN <<>> ELSE Append(Reverse(Tail(q)), Head(q))

\* a plausible slip: sorted(..., reverse=True)
uniq_reverse(lst) == Reverse(SortedSet(Range(lst)))

\* uniq = sorted(set(lst))
uniq(lst) == SortedSet(Range(lst))

\* itertools.combinations(u, 2) from position i on, in itertools' order
RECURSIVE CombinationsFrom(_, _)
CombinationsFrom(u, i) ==
  IF i >= Len(u) THEN <<>>
  ELSE [j \in 1..(Len(u) - i) |-> <<u[i], u[i + j]>>] \o CombinationsFrom(u, i + 1)

combinations2(u) == CombinationsFrom(u, 1)

\* Counter()
EmptyCounter == [key \in {} |-> 0]

\* counter[key] += 1
Increment(c, key) ==
  IF key \in DOMAIN c THEN [c EXCEPT ![key] = @ + 1]
  ELSE [k \in DOMAIN c \cup {key} |-> IF k = key THEN 1 ELSE c[k]]

RECURSIVE IncrementAll(_, _)
IncrementAll(c, keys) ==
  IF keys = <<>> THEN c
  ELSE IncrementAll(Increment(c, Head(keys)), Tail(keys))

\* the body of the counting loop for one list
CountRecord(c, lst) == IncrementAll(c, combinations2(uniq(lst)))

(***************************************************************************)
(* plot.py: selection, graph and widths                                    *)
(***************************************************************************)
Min(a, b) == IF a <= b THEN a ELSE b

\* a plausible slip: ascending=True
sort_values_ascending(c) ==
  { s \in [1..Cardinality(DOMAIN c) -> DOMAIN c] :
      /\ \A i, j \in DOMAIN s : i # j => s[i] # s[j]
      /\ \A i, j \in DOMAIN s : i < j => c[s[i]] <= c[s[j]] }

\* pd.Series(c).sort_values(ascending=False): the orders of the keys the
\* sort can produce; the order among equal counts is the sort's choice
sort_values(c) ==
  { s \in [1..Cardinality(DOMAIN c) -> DOMAIN c] :
      /\ \A i, j \in DOMAIN s : i # j => s[i] # s[j]
      /\ \A i, j \in DOMAIN s : i < j => c[s[i]] >= c[s[j]] }

\* Series.head(n), n >= 0, of the sorted series
head(c, order, n) ==
  [i \in 1..Min(n, Len(order)) |-> <<order[i], c[order[i]]>>]

\* G.add_weighted_edges_from(...): nodes of the graph
GraphNodes(items) == UNION {{items[i][1][1], items[i][1][2]} : i \in DOMAIN items}

EdgeOf(pair) == {pair[1], pair[2]}

\* G.add_weighted_edges_from(...): the edges of an undirected graph; a later
\* item for the same edge overwrites the weight
GraphEdges(items) ==
  [e \in {EdgeOf(items[i][1]) : i \in DOMAIN items} |->
     LET last == CHOOSE i \in DOMAIN items :
                   /\ EdgeOf(items[i][1]) = e
                   /\ \A j \in DOMAIN items : EdgeOf(items[j][1]) = e => j <= i
     IN  items[last][2]]

RECURSIVE MaxOf(_)
MaxOf(S) == LET x == CHOOSE y \in S : TRUE
            IN  IF S = {x} THEN x
                ELSE LET m == MaxOf(S \ {x}) IN IF x >= m THEN x ELSE m

RECURSIVE MinOf(_)
MinOf(S) == LET x == CHOOSE y \in S : TRUE
            IN  IF S = {x} THEN x
                ELSE LET m == MinOf(S \ {x}) IN IF x <= m THEN x ELSE m

\* a plausible slip: min for max
MaxWeight_min(items) ==
  IF items # <<>> THEN MinOf({items[i][2] : i \in DOMAIN items}) ELSE 1

\* max_w = max(top_dict.values()) if top_dict else 1
MaxWeight(items) ==
  IF items # <<>> THEN MaxOf({items[i][2] : i \in DOMAIN items}) ELSE 1

\* w / max_w * 20 as floats; "ZeroDivisionError" when max_w is 0
Width(w, m) ==
  IF m = 0 THEN [raised |-> TRUE, value |-> 0]
  ELSE [raised |-> FALSE, value |-> Rnd(w * Scale, m) * 20]

EdgeWidths(edges, m) == [e \in DOMAIN edges |-> Width(edges[e], m)]

(***************************************************************************)
(* Inputs of plot_top_country_pairs and plot_country_network               *)
(***************************************************************************)
USA == <<85, 83, 65>>
CAN == <<67, 65, 78>>
MEX == <<77, 69, 88>>

Countries == {USA, CAN, MEX}

SeqsUpTo(S, n) == UNION {[1..k -> S] : k \in 0..n}

\* cells of df[list_col]: missing, empty, one code, one code twice, a
\* pair in and out of order, pairs with a repeat, three codes
Cells ==
  { NaN, List(<<>>), List(<<MEX>>), List(<<CAN, CAN>>), List(<<CAN, USA>>),
    List(<<USA, CAN>>), List(<<MEX, CAN>>), List(<<USA, USA, CAN>>),
    List(<<MEX, USA, MEX>>), List(<<USA, CAN, MEX>>) }

Columns == SeqsUpTo(Cells, MaxRecords)

(***************************************************************************)
(* plot_top_country_pairs and plot_country_network as a state machine      *)
(***************************************************************************)
IdleAgg ==
  /\ fn = "none"
  /\ idx = 0
  /\ counter = EmptyCounter
  /\ top_n = 0
  /\ top = <<>>
  /\ G_nodes = {}
  /\ G_edges = EmptyCounter
  /\ max_w = 0
  /\ widths = EmptyCounter
  /\ shown = "none"

InitAgg ==
  /\ col \in Columns
  /\ IdleAgg

\* plot_top_country_pairs(df, top_n = n) is called: counter = Counter()
TopPairsStart ==
  /\ fn = "none"
  /\ fn' = "plot_top_country_pairs"
  /\ counter' = EmptyCounter
  /\ \E n \in 0..MaxTop : top_n' = n
  /\ UNCHANGED <<col, idx, top, G_nodes, G_edges, max_w, widths, shown,
               geo_vars, subj_vars>>

\* one iteration of the loop of lines 30-33
TopPairsCount ==
  /\ fn = "plot_top_country_pairs"
  /\ idx < Len(dropna(col))
  /\ counter' = CountRecord(counter, dropna(col)[idx + 1].items)
  /\ idx' = idx + 1
  /\ UNCHANGED <<col, fn, top_n, top, G_nodes, G_edges, max_w, widths, shown,
               geo_vars, subj_vars>>

\* lines 35-46: sort, head, plot
TopPairsPlot ==
  /\ fn = "plot_top_country_pairs"
  /\ idx = Len(dropna(col))
  /\ shown = "none"
  /\ \E order \in sort_values(counter) : top' = head(counter, order, top_n)
  /\ shown' = "bar"
  /\ UNCHANGED <<col, fn, idx, counter, top_n, G_nodes, G_edges, max_w, widths,
               geo_vars, subj_vars>>

\* plot_country_network(df, top_edges = n) is called: counter = Counter()
NetworkStart ==
  /\ fn = "none"
  /\ fn' = "plot_country_network"
  /\ counter' = EmptyCounter
  /\ \E n \in 0..MaxTop : top_n' = n
  /\ UNCHANGED <<col, idx, top, G_nodes, G_edges, max_w, widths, shown,
               geo_vars, subj_vars>>

\* one iteration of the loop of lines 77-80
NetworkCount ==
  /\ fn = "plot_country_network"
  /\ idx < Len(dropna(col))
  /\ counter' = CountRecord(counter, dropna(col)[idx + 1].items)
  /\ idx' = idx + 1
  /\ UNCHANGED <<col, fn, top_n, top, G_nodes, G_edges, max_w, widths, shown,
               geo_vars, subj_vars>>

\* lines 82-100: sort, head, graph, widths, draw
NetworkDraw ==
  /\ fn = "plot_country_network"
  /\ idx = Len(dropna(col))
  /\ shown = "none"
  /\ \E order \in sort_values(counter) :
       LET top_dict == head(counter, order, top_n)
       IN  /\ top' = top_dict
           /\ G_nodes' = GraphNodes(top_dict)
           /\ G_edges' = GraphEdges(top_dict)
           /\ max_w' = MaxWeight(top_dict)
           /\ widths' = EdgeWidths(GraphEdges(top_dict), MaxWeight(top_dict))
  /\ shown' = "network"
  /\ UNCHANGED <<col, fn, idx, counter, top_n,
               geo_vars, subj_vars>>

NextAgg ==
  \/ TopPairsStart \/ TopPairsCount \/ TopPairsPlot
  \/ NetworkStart \/ NetworkCount \/ NetworkDraw

(***************************************************************************)
(* plot.py: plot_pair_mentions_by_subject                                  *)
(***************************************************************************)
NaNStr == [kind |-> "nan", text |-> <<>>]

Str(t) == [kind |-> "str", text |-> t]

\* top_n=None, and top_n=n
TopNone == [isNone |-> TRUE, n |-> 0]

TopInt(k) == [isNone |-> FALSE, n |-> k]

\* the truth value Python gives top_n in "if top_n:"
Truthy(t) == ~t.isNone /\ t.n # 0

\* isinstance(lst, (list, tuple)) and c1 in lst and c2 in lst, row by row
RowMask(df, c1, c2) ==
  [i \in DOMAIN df |->
     /\ df[i].lst.kind = "list"
     /\ c1 \in Range(df[i].lst.items)
     /\ c2 \in Range(df[i].lst.items)]

\* df_pair[subj_col].dropna(): the subject strings of the rows kept
RECURSIVE PairSubjects(_, _, _)
PairSubjects(df, m, i) ==
  IF i > Len(df) THEN <<>>
  ELSE (IF m[i] /\ df[i].subj.kind = "str" THEN <<df[i].subj.text>> ELSE <<>>)
         \o PairSubjects(df, m, i + 1)

\* entry.split(',')
RECURSIVE Split(_)
Split(t) ==
  IF \A i \in DOMAIN t : t[i] # 44 THEN <<t>>
  ELSE LET c == CHOOSE i \in DOMAIN t :
                  t[i] = 44 /\ \A j \in DOMAIN t : j < i => t[j] # 44
       IN  <<SubSeq(t, 1, c - 1)>> \o Split(SubSeq(t, c + 1, Len(t)))

\* the inner loop of lines 145-148 over the pieces of one entry
RECURSIVE CountPieces(_, _)
CountPieces(c, pieces) ==
  IF pieces = <<>> THEN c
  ELSE LET subj == Strip(Head(pieces))
       IN  CountPieces(IF subj # <<>> THEN Increment(c, subj) ELSE c,
                       Tail(pieces))

\* the loop of lines 143-148
RECURSIVE CountSubjects(_, _)
CountSubjects(c, entries) ==
  IF entries = <<>> THEN c
  ELSE CountSubjects(CountPieces(c, Split(Head(entries))), Tail(entries))

SubjectCounter(df, pair) ==
  CountSubjects(EmptyCounter, PairSubjects(df, RowMask(df, pair[1], pair[2]), 1))

\* a plausible slip: the early return of lines 150-152 left out
plot_pair_mentions_no_guard(df, pair, t, order) ==
  LET c == SubjectCounter(df, pair)
  IN  [mask |-> RowMask(df, pair[1], pair[2]),
       series |-> IF Truthy(t) THEN head(c, order, t.n)
                  ELSE head(c, order, Len(order)),
       printed |-> FALSE,
       plotted |-> TRUE]

\* plot_pair_mentions_by_subject(df, country_pair, top_n=t); order is the
\* order sort_values gave the labels
plot_pair_mentions_by_subject(df, pair, t, order) ==
  LET c == SubjectCounter(df, pair)
  IN  IF c = EmptyCounter
      THEN [mask |-> RowMask(df, pair[1], pair[2]),
            series |-> <<>>,
            printed |-> TRUE,
            plotted |-> FALSE]
      ELSE [mask |-> RowMask(df, pair[1], pair[2]),
            series |-> IF Truthy(t) THEN head(c, order, t.n)
                       ELSE head(c, order, Len(order)),
            printed |-> FALSE,
            plotted |-> TRUE]

(***************************************************************************)
(* Inputs of plot_pair_mentions_by_subject                                 *)
(***************************************************************************)
SubjLists ==
  { NaN, List(<<USA>>), List(<<CAN, USA>>), List(<<USA, MEX, CAN>>) }

\* NaN, "", "A", "A,B", " A ,A", "B,,A "
SubjCells ==
  { NaNStr, Str(<<>>), Str(<<65>>), Str(<<65, 44, 66>>),
    Str(<<32, 65, 32, 44, 65>>), Str(<<66, 44, 44, 65, 32>>) }

SubjRows == {[lst |-> l, subj |-> t] : l \in SubjLists, t \in SubjCells}

PairArgs == { <<USA, CAN>>, <<MEX, USA>> }

TopNArgs == {TopNone} \cup {TopInt(k) : k \in 0..MaxTop}

(***************************************************************************)
(* plot_pair_mentions_by_subject as a state machine                        *)
(***************************************************************************)
IdleSubj ==
  /\ country_pair = <<>>
  /\ subj_top_n = TopNone
  /\ mask = <<>>
  /\ subj_series = <<>>
  /\ printed = FALSE
  /\ plotted = FALSE

InitSubj ==
  /\ subj_df \in SeqsUpTo(SubjRows, MaxRows)
  /\ IdleSubj

\* the call plot_pair_mentions_by_subject(df, pair, top_n = t)
CallPlotPairMentions ==
  /\ country_pair = <<>>
  /\ \E pair \in PairArgs, t \in TopNArgs :
       \E order \in sort_values(SubjectCounter(subj_df, pair)) :
         LET r == plot_pair_mentions_by_subject(subj_df, pair, t, order)
         IN  /\ country_pair' = pair
             /\ subj_top_n' = t
             /\ mask' = r.mask
             /\ subj_series' = r.series
             /\ printed' = r.printed
             /\ plotted' = r.plotted
  /\ UNCHANGED <<subj_df, geo_vars, agg_vars>>

NextSubj == CallPlotPairMentions

(***************************************************************************)
(* Specifications                                                          *)
(***************************************************************************)
IdleGeo ==
  /\ geo_df = <<>>
  /\ geo_phase = "loading"
  /\ iso1 = <<>>
  /\ iso2 = <<>>
  /\ result = NoResult

\* code_geo.py alone
GeoInit == InitGeo /\ col = <<>> /\ IdleAgg /\ subj_df = <<>> /\ IdleSubj

SpecGeo == GeoInit /\ [][NextGeo]_vars

\* plot_top_country_pairs and plot_country_network alone
AggInit == InitAgg /\ IdleGeo /\ subj_df = <<>> /\ IdleSubj

SpecAgg == AggInit /\ [][NextAgg]_vars

\* plot_pair_mentions_by_subject alone
SubjInit == InitSubj /\ IdleGeo /\ col = <<>> /\ IdleAgg

SpecSubj == SubjInit /\ [][NextSubj]_vars

(***************************************************************************)
(* Claims about the co-mention Counter, the selection and the network      *)
(***************************************************************************)
LoopDone == fn # "none" /\ idx = Len(dropna(col))

CountOf(c, key) == IF key \in DOMAIN c THEN c[key] ELSE 0

\* the records of the column whose list contains both a and b
RecordsWithBoth(a, b) ==
  {i \in DOMAIN col :
     /\ col[i].kind = "list"
     /\ \E j \in DOMAIN col[i].items : col[i].items[j] = a
     /\ \E j \in DOMAIN col[i].items : col[i].items[j] = b}

\* C5: when the counting loop of either function has gone through the
\* column, the count of every pair of two different codes is the number of
\* records whose list contains both codes; repeated codes, and missing,
\* empty or single-code lists, add nothing.
C5_CountIsRecordsWithBoth ==
  LoopDone =>
    \A a \in Countries, b \in Countries :
      StrLess(a, b) =>
        CountOf(counter, <<a, b>>) = Cardinality(RecordsWithBoth(a, b))

\* the documented example: [[USA,CAN],[USA,CAN,MEX],[MEX,CAN]]
C5_Witness ==
  /\ LoopDone
  /\ col = <<List(<<USA, CAN>>), List(<<USA, CAN, MEX>>), List(<<MEX, CAN>>)>>
  /\ CountOf(counter, <<CAN, USA>>) = 2
  /\ CountOf(counter, <<CAN, MEX>>) = 2
  /\ CountOf(counter, <<MEX, USA>>) = 1

\* C6: at every point of the counting loop every key of the Counter is a
\* pair (a, b) with a < b, so no self-pair and no pair under both orders,
\* and every stored count is an integer >= 1.
C6_CanonicalKeys ==
  \A key \in DOMAIN counter :
    /\ StrLess(key[1], key[2])
    /\ key[1] # key[2]
    /\ <<key[2], key[1]>> \notin DOMAIN counter
    /\ counter[key] \in Nat
    /\ counter[key] >= 1

\* a list with a repeated code, given out of order, has been counted
C6_Witness ==
  /\ LoopDone
  /\ idx >= 1
  /\ col # <<>>
  /\ col[1] = List(<<USA, USA, CAN>>)
  /\ DOMAIN counter = {<<CAN, USA>>}
  /\ counter[<<CAN, USA>>] = 1

Selected == {top[i][1] : i \in DOMAIN top}

\* C7: the top-n selection of both functions returns min(n, number of
\* pairs) distinct pairs with their counts, in non-increasing order of
\* count, and no pair left out has a larger count than a selected one.
C7_TopN ==
  shown # "none" =>
    /\ Len(top) = Min(top_n, Cardinality(DOMAIN counter))
    /\ \A i \in DOMAIN top :
         top[i][1] \in DOMAIN counter /\ top[i][2] = counter[top[i][1]]
    /\ \A i, j \in DOMAIN top : i # j => top[i][1] # top[j][1]
    /\ \A i, j \in DOMAIN top : i < j => top[i][2] >= top[j][2]
    /\ \A i \in DOMAIN top :
         \A key \in DOMAIN counter \ Selected : top[i][2] >= counter[key]

\* a selection of two pairs of different counts that leaves a third pair out
C7_Witness ==
  /\ shown = "bar"
  /\ top_n = 2
  /\ Len(top) = 2
  /\ top[1][2] > top[2][2]
  /\ \E key \in DOMAIN counter \ Selected : counter[key] <= top[2][2]

MaxCount(c) == MaxOf({c[k] : k \in DOMAIN c})

\* C10: in plot_country_network the nodes are the codes of the selected
\* pairs and the edges are those pairs with their counts; max_w is never
\* zero (1 when nothing is selected), no width computation divides by
\* zero, every width is in (0, 20] and an edge of maximum weight has width
\* 20.
C10_NetworkWidths ==
  shown = "network" =>
    /\ G_nodes = UNION {{top[i][1][1], top[i][1][2]} : i \in DOMAIN top}
    /\ DOMAIN G_edges = {EdgeOf(top[i][1]) : i \in DOMAIN top}
    /\ Cardinality(DOMAIN G_edges) = Len(top)
    /\ \A i \in DOMAIN top : G_edges[EdgeOf(top[i][1])] = top[i][2]
    /\ max_w # 0
    /\ (top = <<>> => max_w = 1)
    /\ DOMAIN widths = DOMAIN G_edges
    /\ \A e \in DOMAIN widths :
         /\ ~widths[e].raised
         /\ widths[e].value > 0
         /\ widths[e].value <= 20 * Scale
         /\ (G_edges[e] = MaxCount(G_edges) => widths[e].value = 20 * Scale)

\* a network with a widest edge of width 20 and a thinner one
C10_Witness ==
  /\ shown = "network"
  /\ \E e1 \in DOMAIN widths, e2 \in DOMAIN widths :
       /\ widths[e1].value = 20 * Scale
       /\ widths[e2].value < 20 * Scale
       /\ widths[e2].value > 0

(***************************************************************************)
(* Claims about plot_pair_mentions_by_subject                              *)
(***************************************************************************)
SubjCalled == country_pair # <<>>

\* the rows whose country list contains both codes of the pair
RowsWithBoth ==
  {i \in DOMAIN subj_df :
     /\ subj_df[i].lst.kind = "list"
     /\ \E j \in DOMAIN subj_df[i].lst.items :
          subj_df[i].lst.items[j] = country_pair[1]
     /\ \E j \in DOMAIN subj_df[i].lst.items :
          subj_df[i].lst.items[j] = country_pair[2]}

\* the pieces of t between commas, as <<first, last>> positions
Pieces(t) ==
  {seg \in (1..(Len(t) + 1)) \X (0..Len(t)) :
     /\ seg[2] >= seg[1] - 1
     /\ (seg[1] = 1 \/ t[seg[1] - 1] = 44)
     /\ (seg[2] = Len(t) \/ t[seg[2] + 1] = 44)
     /\ \A k \in seg[1]..seg[2] : t[k] # 44}

\* the piece without the blanks around it
Trimmed(t, seg) ==
  LET ink == {k \in seg[1]..seg[2] : t[k] # 32}
  IN  IF ink = {} THEN <<>>
      ELSE SubSeq(t, CHOOSE k \in ink : \A m \in ink : k <= m,
                     CHOOSE k \in ink : \A m \in ink : k >= m)

Occurrences(label, t) ==
  Cardinality({seg \in Pieces(t) : Trimmed(t, seg) = label})

RECURSIVE SumOccurrences(_, _)
SumOccurrences(label, rows) ==
  IF rows = {} THEN 0
  ELSE LET i == CHOOSE r \in rows : TRUE
       IN  (IF subj_df[i].subj.kind = "str"
            THEN Occurrences(label, subj_df[i].subj.text) ELSE 0)
             + SumOccurrences(label, rows \ {i})

\* the non-empty labels of the subject fields of the selected rows
LabelsOfSelected ==
  UNION {{Trimmed(subj_df[i].subj.text, seg) : seg \in Pieces(subj_df[i].subj.text)}
           : i \in {r \in RowsWithBoth : subj_df[r].subj.kind = "str"}} \ {<<>>}

SeriesLabels == {subj_series[i][1] : i \in DOMAIN subj_series}

\* C8: the call selects exactly the rows whose list contains both codes;
\* every returned label carries its number of occurrences over the subject
\* fields of the selected rows; with top_n unset every such label is
\* returned, and with top_n set only the top_n labels by count are.
C8_SubjectCounts ==
  SubjCalled =>
    /\ DOMAIN mask = DOMAIN subj_df
    /\ {i \in DOMAIN mask : mask[i]} = RowsWithBoth
    /\ \A i \in DOMAIN subj_series :
         /\ subj_series[i][1] \in LabelsOfSelected
         /\ subj_series[i][2] = SumOccurrences(subj_series[i][1], RowsWithBoth)
    /\ \A i, j \in DOMAIN subj_series : i # j => subj_series[i][1] # subj_series[j][1]
    /\ (subj_top_n.isNone => SeriesLabels = LabelsOfSelected)
    /\ (~subj_top_n.isNone =>
          /\ Len(subj_series) = Min(subj_top_n.n, Cardinality(LabelsOfSelected))
          /\ \A i \in DOMAIN subj_series :
               \A label \in LabelsOfSelected \ SeriesLabels :
                 subj_series[i][2] >= SumOccurrences(label, RowsWithBoth))

\* C9: when no row matches the pair the call returns an empty mapping,
\* prints the diagnostic and draws nothing; and whenever it draws, the
\* returned mapping is not empty.
C9_EmptyMatch ==
  SubjCalled =>
    /\ (RowsWithBoth = {} =>
          subj_series = <<>> /\ printed /\ ~plotted)
    /\ (plotted => subj_series # <<>>)
    /\ (printed => ~plotted)

\* a call on a table with subjects but no row mentioning both codes
C9_Witness ==
  /\ SubjCalled
  /\ RowsWithBoth = {}
  /\ \E i \in DOMAIN subj_df :
       subj_df[i].subj.kind = "str" /\ subj_df[i].subj.text # <<>>
         /\ subj_df[i].lst.kind = "list"
  /\ printed
  /\ subj_series = <<>>

====
